---------------------------- MODULE Spec2Model ----------------------------
(***************************************************************************)
(* Order-protection engine of src/orb_example.py: the synthetic order      *)
(* monitor (SchwabSyntheticStops), the order-event dispatcher              *)
(* (OpeningRangeBreakoutAlgorithm.OnOrderEvent / HandleSchwabRejection)    *)
(* and the per-symbol reconciler (SymbolData.ensure_position_protected,    *)
(* add_synthetic_protection, cancel_all_stops).                            *)
(*                                                                         *)
(* One traded symbol is modelled (symbols share no state).  Prices are     *)
(* integers in units of 0.01, times are minutes.  The venue and the        *)
(* portfolio ledger are the environment: they acknowledge, fill, reject    *)
(* and cancel orders, update the position, and then deliver the order      *)
(* event to OnOrderEvent.  Every handler runs atomically.                  *)
(***************************************************************************)
EXTENDS Integers, Sequences, FiniteSets, TLC

VARIABLES
    orders,                    \* the venue's order book for the symbol: id = index
    position,                  \* Portfolio[symbol].Quantity
    entry_price,               \* SymbolData.entry_price
    stop_loss_price,           \* SymbolData.stop_loss_price
    quantity,                  \* SymbolData.quantity
    entry_ticket,              \* SymbolData.entry_ticket (order id, 0 = None)
    stop_loss_ticket,          \* SymbolData.stop_loss_ticket (order id, 0 = None)
    last_stop_quantity,        \* SymbolData.last_stop_quantity
    backup_stops,              \* SymbolData.backup_stops (sequence of order ids)
    synthetic_entries,         \* SchwabSyntheticStops.synthetic_entries (dict)
    synthetic_stops,           \* SchwabSyntheticStops.synthetic_stops (dict)
    synthetic_timeout_minutes, \* SchwabSyntheticStops.synthetic_timeout_minutes
    entry_placed,              \* OpeningRangeBreakoutAlgorithm.entry_placed
    now,                       \* algorithm.Time, in minutes
    requests,                  \* venue requests issued by the latest handler run
    reconciled,                \* the latest handler run returned from ensure_position_protected
    call,                      \* the latest handler invocation and its inputs
    crashed                    \* an exception left the latest handler

vars == <<orders, position, entry_price, stop_loss_price, quantity, entry_ticket,
          stop_loss_ticket, last_stop_quantity, backup_stops, synthetic_entries,
          synthetic_stops, synthetic_timeout_minutes, entry_placed, now,
          requests, reconciled, call, crashed>>

---------------------------------------------------------------------------
(* Bounds of the model *)

MaxOrders == 4      \* orders ever sent to the venue
MaxEntries == 2     \* entry orders PlaceTrade ever places
MaxTime == 10       \* the clock stops advancing here (minutes)
MaxWatchOrders == 2  \* orders issued and watches pending, when a watch is registered from outside

---------------------------------------------------------------------------
(* Program constants *)

price_tolerance == 1              \* 0.01 in units of 0.01
DefaultTimeoutMinutes == 10       \* synthetic_timeout_minutes set by __init__
OverflowTimeoutMinutes == 10      \* AddMinutes(10) in add_synthetic_protection

rejection_keywords ==
    {"stop price must be", "stop order rejected", "invalid stop price",
     "stop price outside spread"}

\* Attributes a SymbolData instance has: those __init__ assigns, the
\* properties and the methods of the class.
SymbolDataAttrs ==
    {"algorithm", "security", "symbol", "atr", "volume_sma", "opening_bar",
     "relative_volume", "entry_price", "stop_loss_price", "quantity",
     "entry_ticket", "stop_loss_ticket", "last_stop_quantity", "backup_stops",
     "consolidator", "IsReady", "ATR", "RelativeVolume", "OnDataConsolidated",
     "Scan", "PlaceTrade", "OnOrderEvent", "ensure_position_protected",
     "add_synthetic_protection", "cancel_all_stops", "Dispose"}

---------------------------------------------------------------------------
(* Inputs *)

Sym == "SYM"                      \* the one symbol of the model
None == 0                         \* a ticket reference that is None

\* Opening bars Scan may see: a green bar and a doji.  (A red bar differs
\* from the green one only in the entry price Scan computes.)
Bars ==
    { [Open |-> 96, High |-> 99, Low |-> 95, Close |-> 98],
      [Open |-> 97, High |-> 99, Low |-> 95, Close |-> 97] }

\* stop_loss_atr_distance * ATR, in units of 0.01
StopDistances == {3}

\* Quotes a tick may carry (BidPrice, AskPrice, Price).
Quotes ==
    { [bid |-> 0,   ask |-> 0,   price |-> 95],    \* dead quote, last trade below
      [bid |-> 99,  ask |-> 101, price |-> 100],   \* one tolerance around 100
      [bid |-> 94,  ask |-> 95,  price |-> 94],    \* market fell
      [bid |-> 102, ask |-> 103, price |-> 102],   \* market rose
      [bid |-> 95,  ask |-> 102, price |-> 100] }  \* wide spread around 100

\* A rejection message, as the set of lower-cased phrases it contains.
Messages ==
    { {"stop price must be"}, {"insufficient buying power"} }

\* Minutes by which the clock advances between two handler runs.
ClockSteps == {10}

\* Position sizes PlaceTrade may compute (0: no trade).
EntryQtys == {0, 2}

TimeoutChoices == {5, 10}

NoCall ==
    [op |-> "none", OrderId |-> 0, Status |-> "none", Message |-> {},
     FillQuantity |-> 0, bid |-> 0, ask |-> 0, price |-> 0]

---------------------------------------------------------------------------
(* The program state as one record, so that a handler's sequential code is
   a composition of state transformers. *)

S ==
    [orders |-> orders, position |-> position, entry_price |-> entry_price,
     stop_loss_price |-> stop_loss_price, quantity |-> quantity,
     entry_ticket |-> entry_ticket, stop_loss_ticket |-> stop_loss_ticket,
     last_stop_quantity |-> last_stop_quantity, backup_stops |-> backup_stops,
     synthetic_entries |-> synthetic_entries, synthetic_stops |-> synthetic_stops,
     synthetic_timeout_minutes |-> synthetic_timeout_minutes,
     entry_placed |-> entry_placed, now |-> now,
     requests |-> <<>>, reconciled |-> FALSE, crashed |-> FALSE]

Abs(x) == IF x < 0 THEN -x ELSE x

Min(a, b) == IF a <= b THEN a ELSE b

SeqSum(f, seq) ==
    LET RECURSIVE Sum(_)
        Sum(i) == IF i = 0 THEN 0 ELSE f[seq[i]] + Sum(i - 1)
    IN Sum(Len(seq))

\* list.remove(x): drops the first element equal to x
RemoveFirst(seq, x) ==
    LET idx == CHOOSE i \in 1..Len(seq) :
                   /\ seq[i] = x
                   /\ \A j \in 1..(i - 1) : seq[j] # x
    IN  IF \E i \in 1..Len(seq) : seq[i] = x
        THEN SubSeq(seq, 1, idx - 1) \o SubSeq(seq, idx + 1, Len(seq))
        ELSE seq

\* dict.pop(symbol, None)
Pop(d) == [k \in (DOMAIN d) \ {Sym} |-> d[k]]

\* dict[symbol] = w
Put(d, w) == [k \in (DOMAIN d) \cup {Sym} |-> IF k = Sym THEN w ELSE d[k]]

EmptyDict == [k \in {} |-> 0]

---------------------------------------------------------------------------
(* Venue requests: QCAlgorithm.StopMarketOrder, QCAlgorithm.MarketOrder,
   OrderTicket.Cancel, OrderTicket.Update.  A request is logged in
   s.requests with the venue's answer (ok); a placed order enters the order book with the status its
   ticket shows when the call returns. *)

NextOrderId(s) == Len(s.orders) + 1

PlaceOrder(s, op, qty, price, tag, status) ==
    [s EXCEPT
        !.orders = Append(@, [tag |-> tag, qty |-> qty, price |-> price,
                              status |-> status, filled |-> 0]),
        !.requests = Append(@, [op |-> op, id |-> NextOrderId(s), qty |-> qty,
                                price |-> price, tag |-> tag, ok |-> TRUE])]

StopMarketOrder(s, qty, price, tag, status) ==
    PlaceOrder(s, "StopMarketOrder", qty, price, tag, status)

MarketOrder(s, qty, tag) ==
    PlaceOrder(s, "MarketOrder", qty, 0, tag, "New")

\* ticket.Cancel(): the order is pending cancellation until the venue confirms
Cancel(s, id) ==
    [s EXCEPT
        !.orders[id].status = "CancelPending",
        !.requests = Append(@, [op |-> "Cancel", id |-> id, qty |-> 0,
                                price |-> 0, tag |-> s.orders[id].tag,
                                ok |-> TRUE])]

\* ticket.Update(fields): ok is the venue's response.IsSuccess
Update(s, id, qty, price, ok) ==
    [s EXCEPT
        !.orders[id].qty = IF ok THEN qty ELSE @,
        !.orders[id].price = IF ok THEN price ELSE @,
        !.requests = Append(@, [op |-> "Update", id |-> id, qty |-> qty,
                                price |-> price, tag |-> s.orders[id].tag,
                                ok |-> ok])]

Raise(s) == [s EXCEPT !.crashed = TRUE]

---------------------------------------------------------------------------
(* SchwabSyntheticStops *)

\* any(keyword in order_message.lower() for keyword in rejection_keywords)
is_schwab_rejection(order_message) ==
    \E keyword \in rejection_keywords : keyword \in order_message

Watch(target_price, qty, timeout, side, original_order_id) ==
    [target_price |-> target_price, quantity |-> qty, timeout |-> timeout,
     side |-> side, original_order_id |-> original_order_id]

\* handle_entry_rejection without the "already monitoring" return
handle_entry_rejection_overwriting(s, order_id, target_price, qty) ==
    [s EXCEPT !.synthetic_entries =
        Put(@, Watch(target_price, qty, s.now + s.synthetic_timeout_minutes,
                     IF qty > 0 THEN 1 ELSE -1, order_id))]

handle_entry_rejection(s, order_id, target_price, qty) ==
    IF Sym \in DOMAIN s.synthetic_entries
    THEN s
    ELSE [s EXCEPT !.synthetic_entries =
            Put(@, Watch(target_price, qty, s.now + s.synthetic_timeout_minutes,
                         IF qty > 0 THEN 1 ELSE -1, order_id))]

handle_stop_rejection(s, order_id, target_price, qty) ==
    IF Sym \in DOMAIN s.synthetic_stops
    THEN s
    ELSE [s EXCEPT !.synthetic_stops =
            Put(@, Watch(target_price, qty, s.now + s.synthetic_timeout_minutes,
                         IF qty < 0 THEN -1 ELSE 1, order_id))]

PopEntry(s) == [s EXCEPT !.synthetic_entries = Pop(@)]

PopStop(s) == [s EXCEPT !.synthetic_stops = Pop(@)]

\* the timeout-or-dead-stock test, without the dead-stock part
entry_expired_on_timeout_only(s, entry, q) == s.now >= entry.timeout

\* the timeout-or-dead-stock test, without the timeout part
entry_expired_on_dead_quote_only(s, entry, q) == q.bid = 0 \/ q.ask = 0

\* the timeout-or-dead-stock test of process_synthetic_entries
entry_expired(s, entry, q) ==
    s.now >= entry.timeout \/ q.bid = 0 \/ q.ask = 0

\* the spread test of process_synthetic_entries, without the tolerance
entry_spread_clear_no_tolerance(entry, q) ==
    IF entry.quantity > 0
    THEN q.ask > 0 /\ q.ask <= entry.target_price
    ELSE q.bid > 0 /\ q.bid >= entry.target_price

\* the spread test of process_synthetic_entries: the stop order is acceptable
entry_spread_clear(entry, q) ==
    IF entry.quantity > 0
    THEN q.ask > 0 /\ q.ask <= entry.target_price + price_tolerance
    ELSE q.bid > 0 /\ q.bid >= entry.target_price - price_tolerance

\* the crossing test of process_synthetic_entries, for long entries only
entry_crossed_long_only(entry, q) ==
    entry.quantity > 0 /\ q.price > entry.target_price

\* the crossing test of process_synthetic_entries
entry_crossed(entry, q) ==
    IF entry.quantity > 0
    THEN q.price > entry.target_price
    ELSE q.price < entry.target_price

process_synthetic_entries(s, q) ==
    IF Sym \notin DOMAIN s.synthetic_entries
    THEN s
    ELSE
      LET entry == s.synthetic_entries[Sym] IN
      IF entry_expired(s, entry, q)
      THEN PopEntry(s)
      ELSE IF entry_spread_clear(entry, q)
      THEN PopEntry(StopMarketOrder(s, entry.quantity, entry.target_price,
                                    "Synthetic Entry", "New"))
      ELSE IF entry_crossed(entry, q)
      THEN PopEntry(MarketOrder(s, entry.quantity, "Synthetic Entry (Cross)"))
      ELSE s

\* the timeout branch of process_synthetic_stops, without the forced order
stop_timeout_silent(s, stop) == PopStop(s)

\* the timeout branch of process_synthetic_stops, with the watch left in place
stop_timeout_keeping_watch(s, stop) ==
    MarketOrder(s, stop.quantity, "Synthetic Stop (Timeout)")

\* the timeout branch of process_synthetic_stops
stop_timeout(s, stop) ==
    PopStop(MarketOrder(s, stop.quantity, "Synthetic Stop (Timeout)"))

\* the "no position" test of process_synthetic_stops, never met
stop_disarmed_never(s) == FALSE

\* the "no position" test of process_synthetic_stops
stop_disarmed(s) == s.position = 0

process_synthetic_stops(s, q) ==
    IF Sym \notin DOMAIN s.synthetic_stops
    THEN s
    ELSE
      LET stop == s.synthetic_stops[Sym] IN
      IF stop_disarmed(s)
      THEN PopStop(s)
      ELSE IF s.now >= stop.timeout
      THEN stop_timeout(s, stop)
      ELSE IF stop.quantity < 0
      THEN IF q.bid > 0 /\ q.bid >= stop.target_price - price_tolerance
           THEN PopStop(StopMarketOrder(s, stop.quantity, stop.target_price,
                                        "Synthetic Stop", "New"))
           ELSE IF q.price < stop.target_price
           THEN PopStop(MarketOrder(s, stop.quantity, "Synthetic Stop (Cross)"))
           ELSE s
      ELSE IF q.ask > 0 /\ q.ask <= stop.target_price + price_tolerance
           THEN PopStop(StopMarketOrder(s, stop.quantity, stop.target_price,
                                        "Synthetic Stop", "New"))
           ELSE IF q.price > stop.target_price
           THEN PopStop(MarketOrder(s, stop.quantity, "Synthetic Stop (Cross)"))
           ELSE s

clear_all_monitoring(s) ==
    [s EXCEPT !.synthetic_entries = EmptyDict, !.synthetic_stops = EmptyDict]

---------------------------------------------------------------------------
(* SymbolData *)

cancel_all_stops(s) ==
    LET s1 == IF /\ s.stop_loss_ticket # None
                 /\ s.orders[s.stop_loss_ticket].status \in {"Submitted", "PartiallyFilled"}
              THEN Cancel(s, s.stop_loss_ticket)
              ELSE s
        RECURSIVE CancelBackups(_, _)
        CancelBackups(t, i) ==
            IF i > Len(s.backup_stops)
            THEN t
            ELSE CancelBackups(
                   IF t.orders[s.backup_stops[i]].status = "Submitted"
                   THEN Cancel(t, s.backup_stops[i])
                   ELSE t,
                   i + 1)
    IN  [CancelBackups(s1, 1) EXCEPT !.backup_stops = <<>>,
                                     !.last_stop_quantity = 0]

add_synthetic_protection(s, uncovered_qty) ==
    LET current_position == s.position
        already_protected ==
            s.last_stop_quantity
            + (IF Sym \in DOMAIN s.synthetic_stops
               THEN s.synthetic_stops[Sym].quantity
               ELSE 0)
        actually_needed == Abs(current_position) - Abs(already_protected)
        to_add == Min(Abs(uncovered_qty), actually_needed)
                    * (IF uncovered_qty > 0 THEN 1 ELSE -1)
    IN  IF current_position = 0
        THEN s
        ELSE IF actually_needed <= 0
        THEN s
        ELSE IF Sym \notin DOMAIN s.synthetic_stops
        THEN [s EXCEPT !.synthetic_stops =
                Put(@, Watch(s.stop_loss_price, to_add,
                             s.now + OverflowTimeoutMinutes,
                             IF current_position > 0 THEN -1 ELSE 1, None))]
        ELSE [s EXCEPT !.synthetic_stops[Sym].quantity = @ + to_add]

\* CASE 1 of ensure_position_protected, without the bookkeeping
create_stop_unrecorded(r, desired_stop_qty) ==
    [StopMarketOrder(r, desired_stop_qty, r.stop_loss_price, "ATR Stop", "New")
        EXCEPT !.stop_loss_ticket = NextOrderId(r)]

\* CASE 1 of ensure_position_protected: no stop exists yet
create_stop(r, desired_stop_qty) ==
    [StopMarketOrder(r, desired_stop_qty, r.stop_loss_price, "ATR Stop", "New")
        EXCEPT !.stop_loss_ticket = NextOrderId(r),
               !.last_stop_quantity = desired_stop_qty,
               !.quantity = r.position]

\* the backup placement, with the backup forgotten
place_backup_untracked(u, uncovered_qty, bkStatus) ==
    StopMarketOrder(u, uncovered_qty, u.stop_loss_price, "Backup Stop", bkStatus)

\* the backup placement of the failed-update branch
place_backup(u, uncovered_qty, bkStatus) ==
    [StopMarketOrder(u, uncovered_qty, u.stop_loss_price, "Backup Stop", bkStatus)
        EXCEPT !.backup_stops = Append(@, NextOrderId(u))]

\* updOk: response.IsSuccess of the in-place update.  bkStatus: the status
\* the backup ticket shows when StopMarketOrder returns; when it is
\* Submitted, the venue's acknowledgement was delivered to OnOrderEvent
\* before the ticket entered backup_stops, where it matches nothing.
ensure_position_protected(s, updOk, bkStatus) ==
    LET current_position == s.position
        desired_stop_qty == -current_position
        r == [s EXCEPT !.reconciled = TRUE]
    IN  IF current_position = 0
        THEN cancel_all_stops(r)
        ELSE IF \/ s.stop_loss_ticket = None
                \/ s.orders[s.stop_loss_ticket].status = "Canceled"
                \/ s.orders[s.stop_loss_ticket].status = "Invalid"
        THEN create_stop(r, desired_stop_qty)
        ELSE IF s.last_stop_quantity # desired_stop_qty
        THEN LET u == Update(r, s.stop_loss_ticket, desired_stop_qty,
                             s.stop_loss_price, updOk)
                 uncovered_qty == desired_stop_qty - s.last_stop_quantity
             IN  IF updOk
                 THEN [u EXCEPT !.last_stop_quantity = desired_stop_qty,
                                !.quantity = current_position]
                 ELSE add_synthetic_protection(
                        place_backup(u, uncovered_qty, bkStatus), uncovered_qty)
        ELSE r

\* SymbolData.OnOrderEvent.  slStatus: the status the "Stop Loss" ticket shows
\* when StopMarketOrder returns (Submitted when the venue has acknowledged it
\* by then, Invalid when the request is refused at once).
SymbolData_OnOrderEvent(s, order_event, slStatus, updOk, bkStatus) ==
    IF s.entry_ticket = None \/ order_event.OrderId # s.entry_ticket
    THEN s
    ELSE IF order_event.Status \in {"Filled", "PartiallyFilled"}
    THEN LET actual_quantity == order_event.FillQuantity
             placed == StopMarketOrder([s EXCEPT !.quantity = actual_quantity],
                                       -actual_quantity, s.stop_loss_price,
                                       "Stop Loss", slStatus)
         IN  ensure_position_protected(
                [placed EXCEPT !.stop_loss_ticket = NextOrderId(s)], updOk, bkStatus)
    ELSE s

\* qty: the position size PlaceTrade computes from risk and position limits
PlaceTrade(s, entry_price_, stop_price, qty) ==
    IF qty = 0
    THEN s
    ELSE [StopMarketOrder(s, qty, entry_price_, "Entry", "New")
            EXCEPT !.entry_price = entry_price_,
                   !.stop_loss_price = stop_price,
                   !.quantity = qty,
                   !.entry_ticket = NextOrderId(s)]

\* dist: stop_loss_atr_distance * ATR
Scan(s, bar, dist, qty) ==
    IF bar.Close > bar.Open
    THEN PlaceTrade(s, bar.High + 1, (bar.High + 1) - dist, qty)
    ELSE IF bar.Close < bar.Open
    THEN PlaceTrade(s, bar.Low - 1, (bar.Low - 1) + dist, qty)
    ELSE s

---------------------------------------------------------------------------
(* OpeningRangeBreakoutAlgorithm *)

\* getattr on a SymbolData instance raises AttributeError for a name the
\* class does not define
HasAttr(name) == name \in SymbolDataAttrs

\* The symbol of the model is always in symbol_data.  Each attribute read
\* raises before anything else happens when the attribute does not exist.
HandleSchwabRejection(s, order_event) ==
    IF ~HasAttr("EntryTicket")
    THEN Raise(s)
    ELSE IF s.entry_ticket # None /\ s.entry_ticket = order_event.OrderId
    THEN IF ~HasAttr("EntryPrice") \/ ~HasAttr("Quantity")
         THEN Raise(s)
         ELSE handle_entry_rejection(s, order_event.OrderId, s.entry_price,
                                     s.quantity)
    ELSE IF ~HasAttr("StopLossTicket")
    THEN Raise(s)
    ELSE IF s.stop_loss_ticket # None /\ s.stop_loss_ticket = order_event.OrderId
    THEN IF ~HasAttr("StopLossPrice") \/ ~HasAttr("Quantity")
         THEN Raise(s)
         ELSE handle_stop_rejection(s, order_event.OrderId, s.stop_loss_price,
                                    -s.quantity)
    ELSE s

\* the "Handle backup stops" loop of OnOrderEvent
HandleBackupStops(s, order_event) ==
    IF ~\E i \in 1..Len(s.backup_stops) : s.backup_stops[i] = order_event.OrderId
    THEN s
    ELSE
      LET backup == order_event.OrderId IN
      IF order_event.Status = "Invalid"
      THEN [add_synthetic_protection(s, s.orders[backup].qty)
              EXCEPT !.backup_stops = RemoveFirst(@, backup)]
      ELSE
        LET current_position == s.position
            m == MarketOrder(s, -current_position, "Complete exit after backup")
            c == IF /\ m.stop_loss_ticket # None
                    /\ m.orders[m.stop_loss_ticket].status = "Submitted"
                 THEN Cancel(m, m.stop_loss_ticket)
                 ELSE m
            s1 == IF current_position # 0
                  THEN [c EXCEPT !.last_stop_quantity = 0,
                                 !.stop_loss_ticket = None]
                  ELSE s
        IN  [s1 EXCEPT !.backup_stops = RemoveFirst(@, backup)]

\* OnOrderEvent without the branch that ends the handler on a rejection
OnOrderEvent_without_rejection_return(s, order_event, slStatus, updOk, bkStatus) ==
    HandleBackupStops(
      IF order_event.Status \in {"Filled", "PartiallyFilled"}
      THEN SymbolData_OnOrderEvent(s, order_event, slStatus, updOk, bkStatus)
      ELSE s,
      order_event)

OnOrderEvent(s, order_event, slStatus, updOk, bkStatus) ==
    IF order_event.Status = "Invalid"
    THEN IF is_schwab_rejection(order_event.Message)
         THEN HandleSchwabRejection(s, order_event)
         ELSE s
    ELSE HandleBackupStops(
           IF order_event.Status \in {"Filled", "PartiallyFilled"}
           THEN SymbolData_OnOrderEvent(s, order_event, slStatus, updOk, bkStatus)
           ELSE s,
           order_event)

\* OnData on a whole minute, with candidates: Scan, then entry_placed = True
OnData_Minute(s, bar, dist, qty) ==
    [Scan(s, bar, dist, qty) EXCEPT !.entry_placed = TRUE]

\* OnData off the minute: the two monitor passes
OnData_Second(s, q) ==
    process_synthetic_stops(process_synthetic_entries(s, q), q)

ResetDaily_(s) ==
    clear_all_monitoring([s EXCEPT !.entry_placed = FALSE])

---------------------------------------------------------------------------
(* The state machine *)

Init ==
    /\ orders = <<>>
    /\ position = 0
    /\ entry_price = 0
    /\ stop_loss_price = 0
    /\ quantity = 0
    /\ entry_ticket = None
    /\ stop_loss_ticket = None
    /\ last_stop_quantity = 0
    /\ backup_stops = <<>>
    /\ synthetic_entries = EmptyDict
    /\ synthetic_stops = EmptyDict
    /\ synthetic_timeout_minutes = DefaultTimeoutMinutes
    /\ entry_placed = FALSE
    /\ now = 0
    /\ requests = <<>>
    /\ reconciled = FALSE
    /\ call = NoCall
    /\ crashed = FALSE

\* The handler ran from S to s; c describes the invocation.
Commit(s, c) ==
    /\ ~crashed
    /\ Len(s.orders) <= MaxOrders
    /\ orders' = s.orders
    /\ position' = s.position
    /\ entry_price' = s.entry_price
    /\ stop_loss_price' = s.stop_loss_price
    /\ quantity' = s.quantity
    /\ entry_ticket' = s.entry_ticket
    /\ stop_loss_ticket' = s.stop_loss_ticket
    /\ last_stop_quantity' = s.last_stop_quantity
    /\ backup_stops' = s.backup_stops
    /\ synthetic_entries' = s.synthetic_entries
    /\ synthetic_stops' = s.synthetic_stops
    /\ synthetic_timeout_minutes' = s.synthetic_timeout_minutes
    /\ entry_placed' = s.entry_placed
    /\ now' = s.now
    /\ requests' = s.requests
    /\ reconciled' = s.reconciled
    /\ crashed' = s.crashed
    /\ call' = c

Event(id, status, message, fillQty) ==
    [NoCall EXCEPT !.op = "OnOrderEvent", !.OrderId = id, !.Status = status,
                   !.Message = message, !.FillQuantity = fillQty]

\* A deployment tunes the monitor's timeout before trading starts.
Configure(m) ==
    /\ call = NoCall
    /\ m # synthetic_timeout_minutes
    /\ Commit([S EXCEPT !.synthetic_timeout_minutes = m],
              [NoCall EXCEPT !.op = "Configure"])

\* Time is read by the watches alone: the clock of the model runs while a
\* watch is registered.
AdvanceClock(d) ==
    /\ synthetic_entries # EmptyDict \/ synthetic_stops # EmptyDict
    /\ now + d <= MaxTime
    /\ Commit([S EXCEPT !.now = @ + d], [NoCall EXCEPT !.op = "Clock"])

\* entry orders PlaceTrade has placed
EntryCount == Cardinality({o \in 1..Len(orders) : orders[o].tag = "Entry"})

DataMinute(bar, dist, qty) ==
    /\ ~entry_placed
    /\ EntryCount < MaxEntries
    /\ Commit(OnData_Minute(S, bar, dist, qty), [NoCall EXCEPT !.op = "OnDataMinute"])

\* With both registries empty the two passes do nothing: omitted as stuttering.
DataSecond(q) ==
    /\ synthetic_entries # EmptyDict \/ synthetic_stops # EmptyDict
    /\ Commit(OnData_Second(S, q),
              [NoCall EXCEPT !.op = "OnDataSecond", !.bid = q.bid, !.ask = q.ask,
                             !.price = q.price])

\* A reset that finds nothing to reset is omitted as stuttering.  A run ends
\* with the day of its last entry order: no reset follows it.
DailyReset ==
    /\ entry_placed \/ synthetic_entries # EmptyDict \/ synthetic_stops # EmptyDict
    /\ EntryCount < MaxEntries
    /\ Commit(ResetDaily_(S), [NoCall EXCEPT !.op = "ResetDaily"])

\* The venue acknowledges order o.
VenueAck(o) ==
    /\ orders[o].status = "New"
    /\ Commit(OnOrderEvent([S EXCEPT !.orders[o].status = "Submitted"],
                           Event(o, "Submitted", {}, 0), "New", TRUE, "New"),
              Event(o, "Submitted", {}, 0))

\* Orders the venue refuses after their placement has returned.  (A "Stop
\* Loss" order is refused at once or not at all: slStatus.)
RefusedLater == {"Entry", "Backup Stop"}

\* Orders the venue fills in several pieces; the others fill in one piece.
FilledInPieces == {"Entry", "Stop Loss", "ATR Stop"}

\* The venue refuses order o with the given message.
VenueReject(o, msg) ==
    /\ orders[o].status = "New"
    /\ orders[o].tag \in RefusedLater
    /\ Commit(OnOrderEvent([S EXCEPT !.orders[o].status = "Invalid"],
                           Event(o, "Invalid", msg, 0), "New", TRUE, "New"),
              Event(o, "Invalid", msg, 0))

\* The venue confirms the cancellation of order o.
VenueCancel(o) ==
    /\ orders[o].status = "CancelPending"
    /\ Commit(OnOrderEvent([S EXCEPT !.orders[o].status = "Canceled"],
                           Event(o, "Canceled", {}, 0), "New", TRUE, "New"),
              Event(o, "Canceled", {}, 0))

\* The venue fills q of order o; the ledger has the fill before the event
\* reaches the algorithm.  The handler reads the venue's answers only on a
\* fill of the entry order, and the status of the "Stop Loss" ticket
\* distinguishes New from Submitted only when the position is flat
\* (cancel_all_stops): elsewhere one answer stands for all.
VenueFill(o, q, slStatus, updOk, bkStatus) ==
    LET remaining == orders[o].qty - orders[o].filled
        status == IF q = remaining THEN "Filled" ELSE "PartiallyFilled"
    IN  /\ orders[o].status \in {"Submitted", "PartiallyFilled"}
        /\ o # entry_ticket => slStatus = "New" /\ updOk
        /\ updOk => bkStatus = "New"
        /\ slStatus = "Submitted" => position + q = 0
        /\ q # 0
        /\ Abs(q) <= Abs(remaining)
        /\ orders[o].tag \notin FilledInPieces => q = remaining
        /\ (q > 0) = (remaining > 0)
        /\ Commit(OnOrderEvent([S EXCEPT !.orders[o].status = status,
                                         !.orders[o].filled = @ + q,
                                         !.position = @ + q],
                               Event(o, status, {}, q), slStatus, updOk, bkStatus),
                  Event(o, status, {}, q))

WatchCount == Cardinality(DOMAIN synthetic_entries) + Cardinality(DOMAIN synthetic_stops)

\* Code outside this file drives the monitor through its public methods; a
\* watch issues at most one order, which bounds the orders of a run.  A
\* registration for a symbol that is already watched is not bounded.
RegisterEntryWatch(target_price, qty) ==
    /\ \/ Sym \in DOMAIN synthetic_entries
       \/ Len(orders) + WatchCount < MaxWatchOrders
    /\ Commit(handle_entry_rejection(S, None, target_price, qty),
              [NoCall EXCEPT !.op = "handle_entry_rejection"])

RegisterStopWatch(target_price, qty) ==
    /\ \/ Sym \in DOMAIN synthetic_stops
       \/ Len(orders) + WatchCount < MaxWatchOrders
    /\ Commit(handle_stop_rejection(S, None, target_price, qty),
              [NoCall EXCEPT !.op = "handle_stop_rejection"])

Orders == 1..Len(orders)

FillQtys == {-3, -2, -1, 1, 2, 3}

Next ==
    \/ \E d \in ClockSteps : AdvanceClock(d)
    \/ \E bar \in Bars, dist \in StopDistances, qty \in EntryQtys :
          DataMinute(bar, dist, qty)
    \/ \E q \in Quotes : DataSecond(q)
    \/ DailyReset
    \/ \E o \in Orders : VenueAck(o)
    \/ \E o \in Orders, msg \in Messages : VenueReject(o, msg)
    \/ \E o \in Orders : VenueCancel(o)
    \/ \E o \in Orders, q \in FillQtys, slStatus \in {"New", "Submitted", "Invalid"},
          updOk \in BOOLEAN, bkStatus \in {"New", "Submitted"} :
             VenueFill(o, q, slStatus, updOk, bkStatus)

Spec == Init /\ [][Next]_vars

\* The monitor on its own: its registration methods called from outside the
\* file (HandleSchwabRejection, their only caller inside it, never reaches
\* them), the one-second data handler, the daily reset and the venue's events
\* for the orders the watches issue.
NextMonitor ==
    \/ \E d \in ClockSteps : AdvanceClock(d)
    \/ \E q \in Quotes : DataSecond(q)
    \/ DailyReset
    \/ \E o \in Orders : VenueAck(o)
    \/ \E o \in Orders, q \in FillQtys : VenueFill(o, q, "New", TRUE, "New")
    \/ \E m \in TimeoutChoices : Configure(m)
    \/ \E p \in {100}, qty \in {-1, 1} : RegisterEntryWatch(p, qty)
    \/ \E p \in {97}, qty \in {-1, 1} : RegisterStopWatch(p, qty)

SpecMonitor == Init /\ [][NextMonitor]_vars

---------------------------------------------------------------------------
(* Vocabulary of the properties *)

InBackups(id, backups) == \E i \in 1..Len(backups) : backups[i] = id

\* sum of the quantities of the orders in backup_stops
BackupQty == SeqSum([o \in 1..Len(orders) |-> orders[o].qty], backup_stops)

\* quantity of the symbol's stop watch, 0 if none
SynStopQty(d) == IF Sym \in DOMAIN d THEN d[Sym].quantity ELSE 0

ProtectiveTags == {"Stop Loss", "ATR Stop", "Backup Stop"}

EntryTags == {"Entry", "Synthetic Entry", "Synthetic Entry (Cross)"}

StopWatchTags == {"Synthetic Stop", "Synthetic Stop (Timeout)", "Synthetic Stop (Cross)"}

FillStatuses == {"Filled", "PartiallyFilled"}

Requested(reqs, op, tags) ==
    \E i \in 1..Len(reqs) : reqs[i].op = op /\ reqs[i].tag \in tags

---------------------------------------------------------------------------
(* C1: when ensure_position_protected has returned for a symbol with a
   nonzero position, last_stop_quantity + the quantities of the backup
   orders + the quantity of the stop watch equals -position. *)
C1_CoverageAfterReconcile ==
    (reconciled /\ position # 0) =>
        last_stop_quantity + BackupQty + SynStopQty(synthetic_stops) = -position

(* C2: an entry fill that leaves a nonzero position has a protective stop
   order requested while its event is processed, whether the filled order is
   the original entry order or one an entry watch issued. *)
C2_EntryFillRequestsStop ==
    ( /\ call.op = "OnOrderEvent"
      /\ call.Status \in FillStatuses
      /\ orders[call.OrderId].tag \in EntryTags
      /\ position # 0 )
    => Requested(requests, "StopMarketOrder", ProtectiveTags)

(* C3: in every reachable state, a second consecutive call of
   ensure_position_protected (position and stop price unchanged) issues no
   venue request, whatever the venue answers to a modification. *)
C3_SecondReconcileSilent ==
    \A ok1 \in BOOLEAN, ok2 \in BOOLEAN :
        LET first == ensure_position_protected(S, ok1, "New")
            second == ensure_position_protected(first, ok2, "New")
        IN  Len(second.requests) = Len(first.requests)

(* C4, as claimed: a tick evaluated for a stop watch with now >= timeout
   issues a market order for the full watch quantity and removes the watch. *)
TimeoutOrderFor(reqs, w) ==
    \E i \in 1..Len(reqs) :
        /\ reqs[i].op = "MarketOrder"
        /\ reqs[i].qty = w.quantity
        /\ reqs[i].tag = "Synthetic Stop (Timeout)"

C4_TimeoutForcesMarketOrder ==
    [][ ( /\ call'.op = "OnDataSecond"
          /\ Sym \in DOMAIN synthetic_stops
          /\ now >= synthetic_stops[Sym].timeout )
        => ( /\ Sym \notin DOMAIN synthetic_stops'
             /\ TimeoutOrderFor(requests', synthetic_stops[Sym]) ) ]_vars

(* C4, amended: a tick evaluated for a stop watch with now >= timeout, for a
   symbol whose position is nonzero, issues a market order for the full watch
   quantity and removes the watch. *)
C4_TimeoutForcesMarketOrderWhenOpen ==
    [][ ( /\ call'.op = "OnDataSecond"
          /\ Sym \in DOMAIN synthetic_stops
          /\ position # 0
          /\ now >= synthetic_stops[Sym].timeout )
        => ( /\ Sym \notin DOMAIN synthetic_stops'
             /\ TimeoutOrderFor(requests', synthetic_stops[Sym]) ) ]_vars

\* a tick has just forced the market order of an expired stop watch
C4_Witness ==
    /\ call.op = "OnDataSecond"
    /\ position # 0
    /\ Sym \notin DOMAIN synthetic_stops
    /\ Requested(requests, "MarketOrder", {"Synthetic Stop (Timeout)"})

(* C5: a tick with bid = 0 or ask = 0 and now < timeout issues no order for
   a stop watch and leaves it registered (stated for a symbol with a nonzero
   position, where the watch is evaluated against the quote). *)
C5_StaleQuoteKeepsStopWatch ==
    [][ ( /\ call'.op = "OnDataSecond"
          /\ (call'.bid = 0 \/ call'.ask = 0)
          /\ Sym \in DOMAIN synthetic_stops
          /\ position # 0
          /\ now < synthetic_stops[Sym].timeout )
        => ( /\ ~Requested(requests', "MarketOrder", StopWatchTags)
             /\ ~Requested(requests', "StopMarketOrder", StopWatchTags)
             /\ synthetic_stops' = synthetic_stops ) ]_vars

(* C6: while an order event is processed, a stop watch is created or
   enlarged only if the event is the rejection of a tracked backup order. *)
C6_WatchOnlyAfterBackupRejected ==
    [][ ( /\ call'.op = "OnOrderEvent"
          /\ Sym \in DOMAIN synthetic_stops'
          /\ Abs(SynStopQty(synthetic_stops')) > Abs(SynStopQty(synthetic_stops)) )
        => ( /\ call'.Status = "Invalid"
             /\ InBackups(call'.OrderId, backup_stops) ) ]_vars

(* C7: a rejected (Invalid) event for an order of the backup list removes
   the order from the list and registers its quantity with the stop watch
   (stated for the invocations that return normally). *)
C7_BackupRejectionGoesSynthetic ==
    [][ ( /\ call'.op = "OnOrderEvent"
          /\ ~crashed'
          /\ call'.Status = "Invalid"
          /\ InBackups(call'.OrderId, backup_stops) )
        => ( /\ ~InBackups(call'.OrderId, backup_stops')
             /\ Sym \in DOMAIN synthetic_stops'
             /\ SynStopQty(synthetic_stops') =
                  SynStopQty(synthetic_stops) + orders[call'.OrderId].qty ) ]_vars

(* C8: after a rejected event with a restricted-stop message, an event for
   the tracked entry order has registered an entry watch with the entry
   price and quantity, and one for the tracked stop order has registered a
   stop watch with the stop price and the negated quantity. *)
C8_RejectionRouting ==
    ( /\ call.op = "OnOrderEvent"
      /\ call.Status = "Invalid"
      /\ is_schwab_rejection(call.Message) )
    => /\ (entry_ticket # None /\ call.OrderId = entry_ticket) =>
             /\ Sym \in DOMAIN synthetic_entries
             /\ synthetic_entries[Sym].target_price = entry_price
             /\ synthetic_entries[Sym].quantity = quantity
       /\ ( /\ ~(entry_ticket # None /\ call.OrderId = entry_ticket)
            /\ stop_loss_ticket # None
            /\ call.OrderId = stop_loss_ticket ) =>
             Sym \in DOMAIN synthetic_stops

(* C9: no invocation of a handler raises. *)
C9_NoHandlerRaises == ~crashed

(* C10: an event for a tracked backup order whose status is neither a fill
   nor a rejection issues no request and leaves the backup list and
   last_stop_quantity unchanged. *)
C10_BackupHandlingOnlyOnFill ==
    [][ ( /\ call'.op = "OnOrderEvent"
          /\ call'.Status \notin (FillStatuses \cup {"Invalid"})
          /\ InBackups(call'.OrderId, backup_stops) )
        => ( /\ requests' = <<>>
             /\ backup_stops' = backup_stops
             /\ last_stop_quantity' = last_stop_quantity ) ]_vars

---------------------------------------------------------------------------
(* Further vocabulary *)

\* statuses of an order that is live at the venue
LiveStatuses == {"Submitted", "PartiallyFilled"}

\* the latest event was a fill of an order of the backup list
BackupFillEvent ==
    /\ call'.op = "OnOrderEvent"
    /\ call'.Status \in FillStatuses
    /\ InBackups(call'.OrderId, backup_stops)

(* C11: when a fill event arrives for an order of the backup list and the
   position read back is a nonzero residual r, a market order for -r is
   issued, the main stop order is cancelled if it is submitted or partially
   filled, and last_stop_quantity becomes 0. *)
C11_BackupFillResidual ==
    [][ (BackupFillEvent /\ position' # 0)
        => ( /\ \E i \in 1..Len(requests') :
                   /\ requests'[i].op = "MarketOrder"
                   /\ requests'[i].qty = -position'
             /\ ( /\ stop_loss_ticket # None
                  /\ orders[stop_loss_ticket].status \in LiveStatuses )
                => orders'[stop_loss_ticket].status = "CancelPending"
             /\ last_stop_quantity' = 0 ) ]_vars

(* C12: when a fill event arrives for an order of the backup list and the
   position read back is 0, no market order is issued, last_stop_quantity
   becomes 0 and the filled order leaves the backup list. *)
C12_BackupFillFlat ==
    [][ (BackupFillEvent /\ position' = 0)
        => ( /\ ~\E i \in 1..Len(requests') : requests'[i].op = "MarketOrder"
             /\ last_stop_quantity' = 0
             /\ ~InBackups(call'.OrderId, backup_stops') ) ]_vars


\* statuses of an order that is open at the venue: sent and neither filled,
\* cancelled nor refused, nor with a cancellation under way
OpenStatuses == {"New", "Submitted", "PartiallyFilled"}

\* ensure_position_protected has just returned from its flat branch
FlatReconcile ==
    /\ call'.op = "OnOrderEvent"
    /\ reconciled'
    /\ position' = 0

(* C13: when ensure_position_protected is called with a position of 0, the
   backup list is emptied, last_stop_quantity is 0, ensure_position_protected
   places no order, and no protective order of the symbol stays open at the
   venue: the active stop and the backups have a cancellation under way
   unless they are filled, cancelled or refused already. *)
C13_FlatReconcileCancelsAll ==
    [][ FlatReconcile
        => ( /\ backup_stops' = <<>>
             /\ last_stop_quantity' = 0
             /\ ~Requested(requests', "StopMarketOrder", {"ATR Stop", "Backup Stop"})
             /\ ~Requested(requests', "MarketOrder", {"Complete exit after backup"})
             /\ \A o \in 1..Len(orders') :
                   orders'[o].tag \in ProtectiveTags
                     => orders'[o].status \notin OpenStatuses ) ]_vars


\* the latest handler run went through ensure_position_protected and the
\* venue refused its in-place modification of the active stop
FailedModification ==
    /\ call'.op = "OnOrderEvent"
    /\ reconciled'
    /\ \E i \in 1..Len(requests') :
          requests'[i].op = "Update" /\ ~requests'[i].ok

\* the requests of the given tag that place a stop order
Placements(reqs, tag) ==
    {i \in 1..Len(reqs) : reqs[i].op = "StopMarketOrder" /\ reqs[i].tag = tag}

(* C14: when ensure_position_protected finds an active stop,
   last_stop_quantity # -position, and the in-place modification fails,
   exactly one backup stop order is placed, for -position - last_stop_quantity
   at stop_loss_price, it is appended to backup_stops, and last_stop_quantity
   is left unchanged. *)
C14_FailedModificationPlacesBackup ==
    [][ FailedModification
        => ( /\ Cardinality(Placements(requests', "Backup Stop")) = 1
             /\ \A i \in Placements(requests', "Backup Stop") :
                   /\ requests'[i].qty = (-position') - last_stop_quantity
                   /\ requests'[i].price = stop_loss_price'
                   /\ backup_stops' = Append(backup_stops, requests'[i].id)
             /\ last_stop_quantity' = last_stop_quantity ) ]_vars

\* a fill of the entry order has just had its modification refused and the
\* backup stop placed
C14_Witness ==
    /\ call.op = "OnOrderEvent"
    /\ reconciled
    /\ position # 0
    /\ \E i \in 1..Len(requests) : requests[i].op = "Update" /\ ~requests[i].ok
    /\ Placements(requests, "Backup Stop") # {}
    /\ backup_stops # <<>>

\* the latest handler run went through ensure_position_protected with a
\* nonzero position and a "Stop Loss" ticket refused at once: no active stop
NoActiveStopReconcile ==
    /\ call'.op = "OnOrderEvent"
    /\ reconciled'
    /\ position' # 0
    /\ Len(orders') > Len(orders)
    /\ orders'[Len(orders) + 1].tag = "Stop Loss"
    /\ orders'[Len(orders) + 1].status = "Invalid"

(* C15: when ensure_position_protected runs with a nonzero position and no
   active stop order (the recorded ticket is Invalid), it places exactly one
   new stop order, for -position at stop_loss_price, records it in
   stop_loss_ticket and sets last_stop_quantity = -position. *)
C15_NoActiveStopCreatesStop ==
    [][ NoActiveStopReconcile
        => ( /\ Cardinality(Placements(requests', "ATR Stop")) = 1
             /\ Placements(requests', "Backup Stop") = {}
             /\ \A i \in Placements(requests', "ATR Stop") :
                   /\ requests'[i].qty = -position'
                   /\ requests'[i].price = stop_loss_price'
                   /\ stop_loss_ticket' = requests'[i].id
             /\ last_stop_quantity' = -position' ) ]_vars

\* the replacement stop of a refused "Stop Loss" order has just been placed
C15_Witness ==
    /\ call.op = "OnOrderEvent"
    /\ reconciled
    /\ position # 0
    /\ stop_loss_ticket # None
    /\ orders[stop_loss_ticket].tag = "ATR Stop"
    /\ Placements(requests, "ATR Stop") # {}
    /\ last_stop_quantity = -position

(* C16: when synthetic coverage is added (the failed-modification branch
   calls add_synthetic_protection with uncovered = -position -
   last_stop_quantity), the quantity added to the stop watch has magnitude
   min(|uncovered|, needed), where needed = |position| - |last_stop_quantity
   + backup quantities + existing watch quantity|; when needed <= 0 the
   stop-watch registry is unchanged. *)
C16_OverflowClamp ==
    [][ FailedModification
        => LET uncovered == (-position') - last_stop_quantity'
               needed == Abs(position')
                           - Abs(last_stop_quantity' + BackupQty'
                                   + SynStopQty(synthetic_stops))
               added == SynStopQty(synthetic_stops') - SynStopQty(synthetic_stops)
           IN  IF needed <= 0
               THEN synthetic_stops' = synthetic_stops
               ELSE Abs(added) = Min(Abs(uncovered), needed) ]_vars

(* C20: after ResetDaily has run, the entry-watch registry and the stop-watch
   registry are empty and the backup list of the symbol is empty. *)
C20_DailyResetClearsAll ==
    call.op = "ResetDaily"
    => ( /\ synthetic_entries = EmptyDict
         /\ synthetic_stops = EmptyDict
         /\ backup_stops = <<>> )


---------------------------------------------------------------------------
(* The monitor's tick, as the properties see it *)

\* the latest handler run was a tick that found the entry watch registered
EntryTick ==
    /\ call'.op = "OnDataSecond"
    /\ Sym \in DOMAIN synthetic_entries

\* the latest handler run was a tick that found the stop watch registered
StopTick ==
    /\ call'.op = "OnDataSecond"
    /\ Sym \in DOMAIN synthetic_stops

LiveQuote == call'.bid # 0 /\ call'.ask # 0

\* the spread has cleared for watch w: ask within tolerance of the target of
\* a long-side (buying) watch, bid within tolerance for a short-side one
SpreadClear(w) ==
    IF w.quantity > 0
    THEN call'.ask > 0 /\ call'.ask <= w.target_price + price_tolerance
    ELSE call'.bid > 0 /\ call'.bid >= w.target_price - price_tolerance

\* the last price has crossed the target of watch w
Crossed(w) ==
    IF w.quantity > 0
    THEN call'.price > w.target_price
    ELSE call'.price < w.target_price

EntryOrderTags == {"Synthetic Entry", "Synthetic Entry (Cross)"}

IssuedFor(reqs, op, qty, price, tag) ==
    \E i \in 1..Len(reqs) :
        /\ reqs[i].op = op
        /\ reqs[i].qty = qty
        /\ reqs[i].price = price
        /\ reqs[i].tag = tag

NoOrderTagged(reqs, tags) ==
    \A i \in 1..Len(reqs) : reqs[i].tag \notin tags

(* C17: on a tick for an entry watch that has not timed out, with nonzero bid
   and ask: if the spread has cleared (long side: ask <= target + tolerance,
   short side: bid >= target - tolerance) a stop order at the target price
   for the watch quantity is placed and the watch is removed; if neither the
   spread has cleared nor the price has crossed, no order is issued for the
   watch and it stays registered. *)
C17_SpreadClearPlacement ==
    [][ ( /\ EntryTick
          /\ now < synthetic_entries[Sym].timeout
          /\ LiveQuote )
        => LET w == synthetic_entries[Sym] IN
           /\ SpreadClear(w)
                => /\ IssuedFor(requests', "StopMarketOrder", w.quantity,
                                w.target_price, "Synthetic Entry")
                   /\ Sym \notin DOMAIN synthetic_entries'
           /\ (~SpreadClear(w) /\ ~Crossed(w))
                => /\ NoOrderTagged(requests', EntryOrderTags)
                   /\ synthetic_entries' = synthetic_entries ]_vars

\* a tick whose ask is exactly target + tolerance has placed the stop order
\* of a long-side entry watch
C17_Witness ==
    /\ call.op = "OnDataSecond"
    /\ call.ask = 100 + price_tolerance
    /\ IssuedFor(requests, "StopMarketOrder", 1, 100, "Synthetic Entry")
    /\ Sym \notin DOMAIN synthetic_entries

(* C18, as claimed: on a tick for a watch (entry or stop) that has not timed
   out, if the spread has not cleared and the last price has crossed the
   target, a market order for the watch quantity is issued and the watch is
   removed. *)
C18_CrossingEscalation ==
    [][ /\ ( /\ EntryTick
             /\ now < synthetic_entries[Sym].timeout
             /\ ~SpreadClear(synthetic_entries[Sym])
             /\ Crossed(synthetic_entries[Sym]) )
           => /\ IssuedFor(requests', "MarketOrder", synthetic_entries[Sym].quantity,
                           0, "Synthetic Entry (Cross)")
              /\ Sym \notin DOMAIN synthetic_entries'
        /\ ( /\ StopTick
             /\ now < synthetic_stops[Sym].timeout
             /\ ~SpreadClear(synthetic_stops[Sym])
             /\ Crossed(synthetic_stops[Sym]) )
           => /\ IssuedFor(requests', "MarketOrder", synthetic_stops[Sym].quantity,
                           0, "Synthetic Stop (Cross)")
              /\ Sym \notin DOMAIN synthetic_stops' ]_vars

(* C18, amended: the same, for a tick with nonzero bid and ask and, for a
   stop watch, a symbol whose position is nonzero. *)
C18_CrossingEscalationOnLiveQuote ==
    [][ /\ ( /\ EntryTick
             /\ LiveQuote
             /\ now < synthetic_entries[Sym].timeout
             /\ ~SpreadClear(synthetic_entries[Sym])
             /\ Crossed(synthetic_entries[Sym]) )
           => /\ IssuedFor(requests', "MarketOrder", synthetic_entries[Sym].quantity,
                           0, "Synthetic Entry (Cross)")
              /\ Sym \notin DOMAIN synthetic_entries'
        /\ ( /\ StopTick
             /\ LiveQuote
             /\ position # 0
             /\ now < synthetic_stops[Sym].timeout
             /\ ~SpreadClear(synthetic_stops[Sym])
             /\ Crossed(synthetic_stops[Sym]) )
           => /\ IssuedFor(requests', "MarketOrder", synthetic_stops[Sym].quantity,
                           0, "Synthetic Stop (Cross)")
              /\ Sym \notin DOMAIN synthetic_stops' ]_vars

\* a tick has escalated a short-side entry watch to a market order
C18_Witness ==
    /\ call.op = "OnDataSecond"
    /\ call.bid # 0
    /\ call.price < 100
    /\ IssuedFor(requests, "MarketOrder", -1, 0, "Synthetic Entry (Cross)")
    /\ Sym \notin DOMAIN synthetic_entries

(* C19: on a tick with now >= timeout, or bid = 0, or ask = 0, an entry watch
   is removed and no order is issued for it. *)
C19_EntryWatchExpiry ==
    [][ ( /\ EntryTick
          /\ \/ now >= synthetic_entries[Sym].timeout
             \/ call'.bid = 0
             \/ call'.ask = 0 )
        => ( /\ Sym \notin DOMAIN synthetic_entries'
             /\ NoOrderTagged(requests', EntryOrderTags) ) ]_vars

\* a tick with a dead quote has run before any watch could time out, and has
\* left no entry watch and issued nothing
C19_Witness ==
    /\ call.op = "OnDataSecond"
    /\ call.bid = 0
    /\ call.ask = 0
    /\ now = 0
    /\ orders = <<>>
    /\ requests = <<>>
    /\ Sym \notin DOMAIN synthetic_entries


---------------------------------------------------------------------------
(* Rejections the monitor does not take over *)

\* the latest handler run was an order event reporting a rejection whose
\* message is not a restricted-stop rejection
OtherRejection ==
    /\ call'.op = "OnOrderEvent"
    /\ call'.Status = "Invalid"
    /\ ~is_schwab_rejection(call'.Message)

(* C21: an order event with status rejected whose message is not classified
   as a restricted-stop rejection registers no watch, places, modifies and
   cancels no order, and leaves both watch registries, last_stop_quantity,
   the active stop and the backup list unchanged. *)
C21_OtherRejectionChangesNothing ==
    [][ OtherRejection
        => /\ requests' = <<>>
           /\ Len(orders') = Len(orders)
           /\ synthetic_entries' = synthetic_entries
           /\ synthetic_stops' = synthetic_stops
           /\ last_stop_quantity' = last_stop_quantity
           /\ stop_loss_ticket' = stop_loss_ticket
           /\ backup_stops' = backup_stops ]_vars

\* a backup stop of an open position has been rejected for another reason
C21_Witness ==
    /\ call.op = "OnOrderEvent"
    /\ call.Status = "Invalid"
    /\ ~is_schwab_rejection(call.Message)
    /\ InBackups(call.OrderId, backup_stops)
    /\ position # 0


---------------------------------------------------------------------------
(* Registration of watches *)

(* C22: registering an entry watch (handle_entry_rejection) or a stop watch
   (handle_stop_rejection) for a symbol that already has a watch in that role
   is a no-op: the existing watch's target price, quantity, timeout and
   originating order id are unchanged, and each registry holds at most one
   watch per symbol. *)
C22_RegistrationIdempotent ==
    [][ /\ (call'.op = "handle_entry_rejection" /\ Sym \in DOMAIN synthetic_entries)
           => /\ synthetic_entries' = synthetic_entries
              /\ synthetic_stops' = synthetic_stops
        /\ (call'.op = "handle_stop_rejection" /\ Sym \in DOMAIN synthetic_stops)
           => /\ synthetic_stops' = synthetic_stops
              /\ synthetic_entries' = synthetic_entries
        /\ DOMAIN synthetic_entries' \subseteq {Sym}
        /\ DOMAIN synthetic_stops' \subseteq {Sym} ]_vars

\* a registration has run for a symbol whose entry watch is older than the
\* one the call would have created
C22_Witness ==
    /\ call.op = "handle_entry_rejection"
    /\ Sym \in DOMAIN synthetic_entries
    /\ synthetic_entries[Sym].timeout < now + synthetic_timeout_minutes


---------------------------------------------------------------------------
(* The strategy in a deployment that tunes the monitor's timeout and risks
   enough for entries of three shares, on a venue that acknowledges and fills
   orders and may refuse a modification. *)

\* Position sizes PlaceTrade may compute in this deployment
DeploymentEntryQtys == EntryQtys \cup {3}

NextConfigured ==
    \/ \E m \in TimeoutChoices : Configure(m)
    \/ \E d \in ClockSteps : AdvanceClock(d)
    \/ \E bar \in Bars, dist \in StopDistances, qty \in DeploymentEntryQtys :
          DataMinute(bar, dist, qty)
    \/ \E q \in Quotes : DataSecond(q)
    \/ \E o \in Orders : VenueAck(o)
    \/ \E o \in Orders, q \in FillQtys, updOk \in BOOLEAN :
          VenueFill(o, q, "New", updOk, "New")

SpecConfigured == Init /\ [][NextConfigured]_vars

(* C23: every watch, whichever path creates it (rejection handlers or
   overflow coverage from reconciliation), gets timeout = creation time + the
   configured synthetic_timeout_minutes, for any configured value. *)
C23_ConfiguredTimeout ==
    [][ /\ (Sym \notin DOMAIN synthetic_entries /\ Sym \in DOMAIN synthetic_entries')
           => synthetic_entries'[Sym].timeout = now' + synthetic_timeout_minutes'
        /\ (Sym \notin DOMAIN synthetic_stops /\ Sym \in DOMAIN synthetic_stops')
           => synthetic_stops'[Sym].timeout = now' + synthetic_timeout_minutes' ]_vars


---------------------------------------------------------------------------
(* The main protective stop *)

MainStopTags == {"Stop Loss", "ATR Stop"}

\* main stop orders that are live at the venue
LiveMainStops ==
    {o \in 1..Len(orders) : /\ orders[o].tag \in MainStopTags
                            /\ orders[o].status \in OpenStatuses}

(* C24: after any sequence of entry fill events, at most one main protective
   stop order is live at the venue, and it is the one recorded as
   stop_loss_ticket. *)
C24_SingleLiveMainStop ==
    [][ ( /\ call'.op = "OnOrderEvent"
          /\ entry_ticket # None
          /\ call'.OrderId = entry_ticket
          /\ call'.Status \in FillStatuses
          /\ LiveMainStops \subseteq {stop_loss_ticket} )
        => LiveMainStops' \subseteq {stop_loss_ticket'} ]_vars


---------------------------------------------------------------------------
(* Backup stops *)

(* C25: every backup stop order placed by reconciliation has a nonzero
   quantity whose sign is opposite to the sign of the current position. *)
C25_BackupReducesExposure ==
    [][ \A i \in 1..Len(requests') :
          (requests'[i].op = "StopMarketOrder" /\ requests'[i].tag = "Backup Stop")
          => \/ requests'[i].qty > 0 /\ position' < 0
             \/ requests'[i].qty < 0 /\ position' > 0 ]_vars


---------------------------------------------------------------------------
(* Watches and the orders they cause *)

CountTagged(reqs, tags) ==
    Cardinality({i \in 1..Len(reqs) : reqs[i].tag \in tags})

\* what one tick may do with the watch of a registry: issue nothing and leave
\* it or remove it, or issue one order and remove it; without a watch, issue
\* nothing
FiresAtMostOnce(before, after, reqs, tags) ==
    IF Sym \in DOMAIN before
    THEN \/ /\ CountTagged(reqs, tags) = 0
            /\ after = before \/ Sym \notin DOMAIN after
         \/ /\ CountTagged(reqs, tags) = 1
            /\ Sym \notin DOMAIN after
    ELSE /\ CountTagged(reqs, tags) = 0
         /\ after = before

(* C26: a watch causes at most one venue order over its lifetime: the watch
   is removed in the same tick that issues the order, a tick that issues no
   order for a watch either leaves it unchanged or removes it, and no step
   other than a tick issues an order for a watch. *)
C26_WatchFiresAtMostOnce ==
    [][ IF call'.op = "OnDataSecond"
        THEN /\ FiresAtMostOnce(synthetic_entries, synthetic_entries',
                                requests', EntryOrderTags)
             /\ FiresAtMostOnce(synthetic_stops, synthetic_stops',
                                requests', StopWatchTags)
        ELSE CountTagged(requests', EntryOrderTags \cup StopWatchTags) = 0 ]_vars

\* a tick at the timeout has issued the one order of a stop watch and removed
\* the watch
C26_Witness ==
    /\ call.op = "OnDataSecond"
    /\ position # 0
    /\ CountTagged(requests, {"Synthetic Stop (Timeout)"}) = 1
    /\ Len(requests) = 1
    /\ Sym \notin DOMAIN synthetic_stops


(* C27: when a tick is evaluated for a stop watch whose symbol has position
   0, the watch is removed and no order is issued, whatever the quote and
   even if the timeout has passed; a stop watch never issues an order for a
   symbol that is flat at the time of the tick. *)
C27_FlatDisarmsStopWatch ==
    [][ /\ (StopTick /\ position = 0)
           => /\ Sym \notin DOMAIN synthetic_stops'
              /\ NoOrderTagged(requests', StopWatchTags)
        /\ (call'.op = "OnDataSecond" /\ ~NoOrderTagged(requests', StopWatchTags))
           => position # 0 ]_vars

\* a tick after the timeout has found the strategy's stop watch with the
\* symbol flat, and has removed it without an order
C27_Witness ==
    /\ call.op = "OnDataSecond"
    /\ position = 0
    /\ now >= OverflowTimeoutMinutes
    /\ synthetic_entries = EmptyDict
    /\ synthetic_stops = EmptyDict
    /\ requests = <<>>


---------------------------------------------------------------------------
(* The monitor while ticks keep being delivered and the clock keeps
   advancing.  The clock of the model stops at MaxTime: the watches of this
   specification are those whose timeout it reaches. *)

RegisterEntryWatchInTime(target_price, qty) ==
    /\ now + synthetic_timeout_minutes <= MaxTime
    /\ RegisterEntryWatch(target_price, qty)

RegisterStopWatchInTime(target_price, qty) ==
    /\ now + synthetic_timeout_minutes <= MaxTime
    /\ RegisterStopWatch(target_price, qty)

Tick == \E q \in Quotes : DataSecond(q)

ClockTick == \E d \in ClockSteps : AdvanceClock(d)

NextMonitorLive ==
    \/ ClockTick
    \/ Tick
    \/ DailyReset
    \/ \E o \in Orders : VenueAck(o)
    \/ \E o \in Orders, q \in FillQtys : VenueFill(o, q, "New", TRUE, "New")
    \/ \E m \in TimeoutChoices : Configure(m)
    \/ \E p \in {100}, qty \in {-1, 1} : RegisterEntryWatchInTime(p, qty)
    \/ \E p \in {97}, qty \in {-1, 1} : RegisterStopWatchInTime(p, qty)

SpecMonitorLive ==
    Init /\ [][NextMonitorLive]_vars /\ WF_vars(Tick) /\ WF_vars(ClockTick)

(* C28: while ticks keep being delivered and the clock keeps advancing, every
   registered entry watch and stop watch is eventually removed from its
   registry; the first tick evaluated for it at or after its timeout removes
   it, and so does a daily reset. *)
C28_WatchesEventuallyResolved ==
    /\ (Sym \in DOMAIN synthetic_entries) ~> (Sym \notin DOMAIN synthetic_entries)
    /\ (Sym \in DOMAIN synthetic_stops) ~> (Sym \notin DOMAIN synthetic_stops)
    /\ [][ /\ (EntryTick /\ now >= synthetic_entries[Sym].timeout)
              => Sym \notin DOMAIN synthetic_entries'
           /\ (StopTick /\ now >= synthetic_stops[Sym].timeout)
              => Sym \notin DOMAIN synthetic_stops'
           /\ call'.op = "ResetDaily"
              => /\ synthetic_entries' = EmptyDict
                 /\ synthetic_stops' = EmptyDict ]_vars

\* a tick at or after the configured timeout, on a quote that clears the
\* spread of every unexpired watch, has left no watch and issued no order
C28_Witness ==
    /\ call.op = "OnDataSecond"
    /\ call.bid = 99
    /\ call.ask = 101
    /\ now >= synthetic_timeout_minutes
    /\ synthetic_entries = EmptyDict
    /\ synthetic_stops = EmptyDict
    /\ requests = <<>>

=============================================================================
